---------------------------- MODULE Spec2Model ----------------------------
(***************************************************************************)
(* Model of salt/modules/hipchat.py: the private helper _query and the     *)
(* five public operations list_rooms, list_users, find_room, find_user and *)
(* send_message.                                                           *)
(*                                                                         *)
(* A call runs in two steps.  The first step (one action per public        *)
(* operation) runs the operation up to the point where _query hands the    *)
(* request to requests.request, or to its end when _query returns or       *)
(* raises before that point.  The second step is the answer of the         *)
(* transport (an exception or a response) together with the rest of the    *)
(* operation.  Python values are tagged records so that values of          *)
(* different Python types can be told apart.                               *)
(***************************************************************************)
EXTENDS Integers, Sequences, FiniteSets, TLC

VARIABLES config, pc, call, api_key, api_version, consulted, calls,
          request, response, outcome

vars == <<config, pc, call, api_key, api_version, consulted, calls,
          request, response, outcome>>

---------------------------------------------------------------------------
(* Bounds of the model *)

\* longest list of rooms / users a response body holds
MaxLen == 2

---------------------------------------------------------------------------
(* Python values *)

\* Python's None among string-valued arguments; str(None) is 'None'
None == "None"

PyNone == [t |-> "none"]
PyBool(b) == [t |-> "bool", b |-> b]
PyStr(s) == [t |-> "str", s |-> s]
PyList(xs) == [t |-> "list", items |-> xs]

\* truth value of a string-or-None argument (api_key, api_version)
TruthyArg(x) == x # None /\ x # ""

\* truth value of a tagged Python value
Truthy(v) ==
    CASE v.t = "none" -> FALSE
      [] v.t = "bool" -> v.b
      [] v.t = "str"  -> v.s # ""
      [] v.t = "list" -> v.items # <<>>
      [] OTHER        -> TRUE

\* how an operation ends: by returning val, or by raising exc
Return(v) == [kind |-> "return", val |-> v, exc |-> ""]
Raise(e) == [kind |-> "raise", val |-> PyNone, exc |-> e]
Pending == [kind |-> "pending", val |-> PyNone, exc |-> ""]

\* the empty dict
EmptyDict == [k \in {} |-> 0]

\* d[k] = v on a dict
DictSet(d, k, v) == [x \in DOMAIN d \cup {k} |-> IF x = k THEN v ELSE d[x]]

---------------------------------------------------------------------------
(* Inputs *)

\* api keys: the one passed by the caller and the one of the configuration
CallerKey == "callerkey"
ConfigKey == "configkey"

Versions == {"v1", "v2", "v3"}

\* process-wide configuration as seen through __salt__['config.option']:
\*   absent    __salt__ or its 'config.option' entry does not exist
\*   noprofile config.option('hipchat') yields its default '', not a mapping
\*   profile   a mapping; a missing entry reads as None through .get
Configs ==
    { [kind |-> "absent", api_key |-> None, api_version |-> None],
      [kind |-> "noprofile", api_key |-> None, api_version |-> None] }
    \cup [kind : {"profile"}, api_key : {None, ConfigKey},
          api_version : {None} \cup Versions]

Names == {"Dev", "dev"}
SearchNames == {"Dev", "QA"}
RoomIds == {0, 7}

\* a Room or User record: a mapping with a name, told apart by id
Ids == {"a", "b"}
Elements == [t : {"dict"}, name : Names, id : Ids]

RECURSIVE SeqsUpTo(_, _)
SeqsUpTo(S, n) ==
    IF n = 0 THEN {<<>>}
    ELSE LET shorter == SeqsUpTo(S, n - 1)
         IN shorter \cup { Append(s, e) : s \in {x \in shorter : Len(x) = n - 1}, e \in S }

Lists == { PyList(s) : s \in SeqsUpTo(Elements, MaxLen) }

\* response bodies: text that is no JSON, a JSON array, or a JSON object
\* with one field
BodyKeys == {"rooms", "users", "items", "status", "error"}
Bodies ==
    { [kind |-> "malformed", key |-> "", val |-> PyNone],
      [kind |-> "array", key |-> "", val |-> PyNone] }
    \cup [kind : {"object"}, key : BodyKeys, val : Lists \cup {PyStr("sent")}]

EmptyBody == [kind |-> "malformed", key |-> "", val |-> PyNone]

\* what requests.request does: raise, or return a response
Responses ==
    { [kind |-> "ConnectionError", status_code |-> 0, body |-> EmptyBody],
      [kind |-> "TooManyRedirects", status_code |-> 0, body |-> EmptyBody],
      [kind |-> "response", status_code |-> 204, body |-> EmptyBody] }
    \cup [kind : {"response"}, status_code : {200, 404}, body : Bodies]

NoResponse == [kind |-> "none", status_code |-> 0, body |-> EmptyBody]
NoRequest == [method |-> "", url |-> "", headers |-> EmptyDict,
              params |-> EmptyDict, data |-> [enc |-> "none", doc |-> EmptyDict],
              verify |-> FALSE]


NoCall == [op |-> "", api_key |-> None, api_version |-> None, name |-> "",
           room_id |-> 0, notify |-> FALSE, from_name |-> 0, message |-> 0]

---------------------------------------------------------------------------
(* _query: the dispatch table *)

\* the nested table of request paths and response envelope keys
hipchat_functions(room_id) ==
    [v1 |-> [rooms   |-> [request |-> "rooms/list", response |-> "rooms"],
             users   |-> [request |-> "users/list", response |-> "users"],
             message |-> [request |-> "rooms/message", response |-> "status"]],
     v2 |-> [rooms   |-> [request |-> "room", response |-> "items"],
             users   |-> [request |-> "user", response |-> "items"],
             message |-> [request |-> "room/" \o room_id \o "/notification",
                          response |-> None]]]

\* room_id as _query reads it off data: str(room_id), '0' when absent or falsy
QueryRoomId(data) ==
    IF "room_id" \in DOMAIN data /\ data["room_id"] # 0
    THEN ToString(data["room_id"])
    ELSE "0"

\* urljoin of a base without a path and a relative reference
url_join_host(base, rel) == base \o "/" \o rel

\* urljoin of a base ending in '/' and a relative path
url_join_dir(base, rel) == base \o rel

api_url == "https://api.hipchat.com"

---------------------------------------------------------------------------
(* _query: credentials *)

\* faulty variant of ResolveCredential: the configured value wins over the one passed by the caller
ResolveCredentialConfigFirst(arg, opt) == IF TruthyArg(opt) THEN opt ELSE arg

\* 'if not api_key: api_key = options.get("api_key")', same for api_version
ResolveCredential(arg, opt) == IF ~TruthyArg(arg) THEN opt ELSE arg

\* the credential block: which key and version _query goes on with, whether
\* it gave up (return False), and how often the configuration was looked up
QueryCredentials(k, v, cfg) ==
    IF ~TruthyArg(k) \/ ~TruthyArg(v)
    THEN IF cfg.kind = "profile"
         THEN [failed |-> FALSE, consulted |-> 1,
               api_key |-> ResolveCredential(k, cfg.api_key),
               api_version |-> ResolveCredential(v, cfg.api_version)]
         ELSE \* NameError / KeyError (absent), AttributeError (noprofile)
              [failed |-> TRUE, consulted |-> 1, api_key |-> k, api_version |-> v]
    ELSE [failed |-> FALSE, consulted |-> 0, api_key |-> k, api_version |-> v]

---------------------------------------------------------------------------
(* _query: the request *)

\* faulty variant of CoerceNotify: notify coerced the wrong way round
CoerceNotifyInverted(data) ==
    IF "notify" \in DOMAIN data /\ data["notify"] = TRUE
    THEN DictSet(data, "notify", 0)
    ELSE DictSet(data, "notify", 1)

\* v1: data['notify'] becomes the integer 1 or 0
CoerceNotify(data) ==
    IF "notify" \in DOMAIN data /\ data["notify"] = TRUE
    THEN DictSet(data, "notify", 1)
    ELSE DictSet(data, "notify", 0)

\* json.dumps(data): a JSON document, its members unchanged
json_dumps(data) == [enc |-> "json", doc |-> data]

\* a dict passed as data= is sent form-encoded
form_data(data) == [enc |-> "form", doc |-> data]

\* lines 100-121: the request for (function, version), or how _query ends
\* before any request is made
QueryBuild(function, k, v, method, data) ==
    LET room_id == QueryRoomId(data)
        table   == hipchat_functions(room_id)
    IN  IF v = None
        THEN [out |-> Raise("TypeError"), request |-> NoRequest]
        ELSE IF v \notin DOMAIN table
        THEN [out |-> Raise("AttributeError"), request |-> NoRequest]
        ELSE
        LET base_url == url_join_host(api_url, v \o "/")
            path     == table[v][function].request
            url      == url_join_dir(base_url, path)
        IN  IF v = "v1"
            THEN [out |-> Pending,
                  request |->
                    [method  |-> method,
                     url     |-> url,
                     headers |-> IF method = "POST"
                                 THEN [x \in {"Content-Type"} |->
                                         "application/x-www-form-urlencoded"]
                                 ELSE EmptyDict,
                     params  |-> [format |-> "json", auth_token |-> k],
                     data    |-> form_data(CoerceNotify(data)),
                     verify  |-> TRUE]]
            ELSE IF v = "v2"
            THEN [out |-> Pending,
                  request |->
                    [method  |-> method,
                     url     |-> url,
                     headers |-> [Authorization |-> "Bearer " \o k],
                     params  |-> EmptyDict,
                     data    |-> json_dumps(data),
                     verify  |-> TRUE]]
            ELSE [out |-> Return(PyBool(FALSE)), request |-> NoRequest]

\* _query from its entry to the call of requests.request
QueryStart(function, k, v, method, data, cfg) ==
    LET cred == QueryCredentials(k, v, cfg)
    IN  IF cred.failed
        THEN [out |-> Return(PyBool(FALSE)), request |-> NoRequest, cred |-> cred]
        ELSE LET b == QueryBuild(function, cred.api_key, cred.api_version, method, data)
             IN  [out |-> b.out, request |-> b.request, cred |-> cred]

---------------------------------------------------------------------------
(* _query: the response *)

\* faulty variant of CatchConnectionError: a second request after the failure
CatchConnectionErrorRetry(n) == [out |-> Return(PyBool(FALSE)), calls |-> n + 1]

\* except requests.ConnectionError: log and return False
CatchConnectionError(n) == [out |-> Return(PyBool(FALSE)), calls |-> n]

\* result.json().get(key) on a response body
JsonGet(body, key) ==
    CASE body.kind = "malformed" -> Raise("ValueError")
      [] body.kind = "array"     -> Raise("AttributeError")
      [] OTHER -> Return(IF body.key = key THEN body.val ELSE PyNone)

\* lines 123-149: _query from the answer of requests.request to its end
QueryFinish(function, v, r, n) ==
    IF r.kind = "ConnectionError" THEN CatchConnectionError(n)
    ELSE IF r.kind # "response" THEN [out |-> Raise(r.kind), calls |-> n]
    ELSE IF r.status_code = 200
    THEN [out |-> JsonGet(r.body, hipchat_functions("0")[v][function].response),
          calls |-> n]
    ELSE IF r.status_code = 204
    THEN [out |-> Return(PyBool(TRUE)), calls |-> n]
    ELSE LET err == JsonGet(r.body, "error")
         IN  [out |-> IF err.kind = "raise" THEN err ELSE Return(PyBool(FALSE)),
              calls |-> n]

---------------------------------------------------------------------------
(* The public operations, after _query *)

\* list_rooms, list_users: the result of _query as it is
ListResult(q) == q

\* faulty variant of FirstMatch: the scan keeps the last match instead of
\* stopping at the first
LastMatch(items, name) ==
    LET hits == { i \in 1..Len(items) : items[i].name = name }
    IN  IF hits = {} THEN PyBool(FALSE)
        ELSE items[CHOOSE i \in hits : \A j \in hits : j <= i]

\* the loop of find_room / find_user: the element at the lowest index whose
\* name is the one looked for, False when the loop runs out
FirstMatch(items, name) ==
    LET hits == { i \in 1..Len(items) : items[i].name = name }
    IN  IF hits = {} THEN PyBool(FALSE)
        ELSE items[CHOOSE i \in hits : \A j \in hits : i <= j]

\* find_room, find_user after the list operation has ended with q
FindResult(q, name) ==
    IF q.kind = "raise" THEN q
    ELSE IF ~Truthy(q.val) THEN Return(PyBool(FALSE))
    ELSE IF q.val.t = "list" THEN Return(FirstMatch(q.val.items, name))
    ELSE \* len(True), or 'sent'[0]['name']
         Raise("TypeError")

\* send_message after _query has ended with q
SendResult(q) ==
    IF q.kind = "raise" THEN q ELSE Return(PyBool(Truthy(q.val)))

\* s[:n] on the length of s
Truncate(len, n) == IF len < n THEN len ELSE n

FromNameMax == 15
MessageMax == 10000

\* the dict send_message builds; 'from' and 'message' stand for their lengths
Parameters(room_id, message, from_name, color, notify) ==
    [room_id |-> room_id, from |-> Truncate(from_name, FromNameMax),
     message |-> Truncate(message, MessageMax), message_format |-> "text",
     color |-> color, notify |-> notify]

\* which _query function an operation asks for
FunctionOf(op) ==
    CASE op \in {"list_rooms", "find_room"} -> "rooms"
      [] op \in {"list_users", "find_user"} -> "users"
      [] OTHER -> "message"

\* what an operation makes of the way _query ended
Finish(c, q) ==
    CASE c.op \in {"list_rooms", "list_users"} -> ListResult(q)
      [] c.op \in {"find_room", "find_user"}   -> FindResult(q, c.name)
      [] OTHER                                 -> SendResult(q)

---------------------------------------------------------------------------
(* State machine *)

Init ==
    /\ config \in Configs
    /\ pc = "idle"
    /\ call = NoCall
    /\ api_key = None
    /\ api_version = None
    /\ consulted = 0
    /\ calls = 0
    /\ request = NoRequest
    /\ response = NoResponse
    /\ outcome = Pending

\* an operation from its entry to the call of requests.request, or to its end
Begin(c, method, data) ==
    LET s == QueryStart(FunctionOf(c.op), c.api_key, c.api_version, method, data, config)
    IN  /\ call' = c
        /\ api_key' = s.cred.api_key
        /\ api_version' = s.cred.api_version
        /\ consulted' = s.cred.consulted
        /\ request' = s.request
        /\ IF s.out.kind = "pending"
           THEN /\ pc' = "sent"
                /\ calls' = calls + 1
                /\ outcome' = Pending
           ELSE /\ pc' = "done"
                /\ calls' = calls
                /\ outcome' = Finish(c, s.out)
        /\ UNCHANGED <<config, response>>

ArgKeys == {None, CallerKey}
ArgVersions == {None} \cup Versions

list_rooms ==
    \E k \in ArgKeys, v \in ArgVersions :
        /\ pc = "idle"
        /\ Begin([NoCall EXCEPT !.op = "list_rooms", !.api_key = k, !.api_version = v],
                 "GET", EmptyDict)

list_users ==
    \E k \in ArgKeys, v \in ArgVersions :
        /\ pc = "idle"
        /\ Begin([NoCall EXCEPT !.op = "list_users", !.api_key = k, !.api_version = v],
                 "GET", EmptyDict)

find_room ==
    \E name \in SearchNames, k \in ArgKeys, v \in ArgVersions :
        /\ pc = "idle"
        /\ Begin([NoCall EXCEPT !.op = "find_room", !.name = name,
                             !.api_key = k, !.api_version = v],
                 "GET", EmptyDict)

find_user ==
    \E name \in SearchNames, k \in ArgKeys, v \in ArgVersions :
        /\ pc = "idle"
        /\ Begin([NoCall EXCEPT !.op = "find_user", !.name = name,
                             !.api_key = k, !.api_version = v],
                 "GET", EmptyDict)

\* lengths of (from_name, message) tried: both short, both over the limit
TextLengths == { <<3, 5>>, <<30, 12000>> }

send_message ==
    \E room_id \in RoomIds, len \in TextLengths, k \in ArgKeys,
       v \in ArgVersions, notify \in BOOLEAN :
        /\ pc = "idle"
        /\ Begin([NoCall EXCEPT !.op = "send_message", !.room_id = room_id,
                             !.from_name = len[1], !.message = len[2],
                             !.notify = notify, !.api_key = k, !.api_version = v],
                 "POST", Parameters(room_id, len[2], len[1], "yellow", notify))

\* requests.request raises or returns, and the operation runs to its end
requests_request ==
    \E r \in Responses :
        LET f == QueryFinish(FunctionOf(call.op), api_version, r, calls)
        IN  /\ pc = "sent"
            /\ response' = r
            /\ calls' = f.calls
            /\ outcome' = Finish(call, f.out)
            /\ pc' = "done"
            /\ UNCHANGED <<config, call, api_key, api_version, consulted, request>>

\* the operation has ended; nothing of the call is kept
Forget ==
    /\ pc = "done"
    /\ pc' = "idle"
    /\ call' = NoCall
    /\ api_key' = None
    /\ api_version' = None
    /\ consulted' = 0
    /\ calls' = 0
    /\ request' = NoRequest
    /\ response' = NoResponse
    /\ outcome' = Pending
    /\ UNCHANGED config

Next ==
    \/ list_rooms
    \/ list_users
    \/ find_room
    \/ find_user
    \/ send_message
    \/ requests_request
    \/ Forget

Spec == Init /\ [][Next]_vars

---------------------------------------------------------------------------
(* Properties *)

Failure == Return(PyBool(FALSE))
FindOps == {"find_room", "find_user"}
Supported == {"v1", "v2"}

\* the transport returned a response with this status
Answered(status) ==
    /\ pc = "done"
    /\ response.kind = "response"
    /\ response.status_code = status

\* a request has been handed to the transport during the current call
Requested == pc \in {"sent", "done"} /\ calls > 0

\* C1: every public operation, whatever the credentials, the api version,
\* the transport outcome, the status and the body, ends by returning a
\* value; no exception reaches the caller.
C1_NothingPropagates == pc = "done" => outcome.kind = "return"

\* C2: when the effective api_version is neither 'v1' nor 'v2', the
\* operation ends with False and the transport is never invoked.
C2_UnsupportedVersionFails ==
    (pc = "done" /\ TruthyArg(api_version) /\ api_version \notin Supported)
        => (outcome = Failure /\ calls = 0)

\* the credential part is neither passed nor supplied by the configuration
MissingKey ==
    ~TruthyArg(call.api_key) /\ (config.kind # "profile" \/ config.api_key = None)
MissingVersion ==
    ~TruthyArg(call.api_version) /\ (config.kind # "profile" \/ config.api_version = None)

\* C3: when api_key or api_version is not passed and the configuration
\* yields none (no resolver, or options without the entry), the operation
\* ends with False and no request is made, in both cases alike.
C3_MissingCredentialFails ==
    (pc # "idle" /\ (MissingKey \/ MissingVersion))
        => (calls = 0 /\ pc = "done" /\ outcome = Failure)

\* C4: on a 204 response every public operation returns success.
C4_NoContentIsSuccess ==
    Answered(204) => (outcome.kind = "return" /\ Truthy(outcome.val))

\* C5: send_message under 'v2' returns True on a 200 response, whatever
\* the JSON body holds.
C5_V2MessageOkByStatus ==
    (/\ Answered(200)
     /\ response.body.kind = "object"
     /\ call.op = "send_message"
     /\ api_version = "v2")
        => outcome = Return(PyBool(TRUE))

\* C6: on a status other than 200 and 204 the operation returns False for
\* every response body, valid JSON or not.
C6_OtherStatusFails ==
    (pc = "done" /\ response.kind = "response" /\ response.status_code \notin {200, 204})
        => outcome = Failure

\* the envelope key the list operation of the current call reads
C7_Envelope ==
    IF api_version = "v2" THEN "items"
    ELSE IF call.op = "find_room" THEN "rooms" ELSE "users"

\* the list operation of the current call returned a list
C7_ListReturned ==
    /\ Answered(200)
    /\ api_version \in Supported
    /\ response.body.kind = "object"
    /\ response.body.key = C7_Envelope
    /\ response.body.val.t = "list"

\* the list operation of the current call returned its failure result
C7_ListFailed ==
    /\ pc = "done"
    /\ \/ calls = 0 /\ consulted = 1 /\ config.kind # "profile"
       \/ response.kind = "ConnectionError"
       \/ /\ response.kind = "response"
          /\ response.status_code \notin {200, 204}
          /\ response.body.kind = "object"
       \/ /\ Answered(200)
          /\ response.body.kind = "object"
          /\ response.body.key # C7_Envelope

C8_AtMostOneRequest ==
    /\ calls <= 1
    /\ (pc = "done" /\ response.kind = "ConnectionError")
         => (outcome = Failure /\ calls = 1)

C8_Witness ==
    pc = "done" /\ response.kind = "ConnectionError" /\ calls = 1 /\ outcome = Failure

\* C9: in the body send_message hands to the transport, notify is the
\* integer 1 or 0 under 'v1' and stays the boolean inside the JSON
\* document under 'v2'.
C9_NotifyEncoding ==
    (Requested /\ call.op = "send_message") =>
        /\ api_version = "v1" =>
             /\ request.data.enc = "form"
             /\ request.data.doc["notify"] = (IF call.notify THEN 1 ELSE 0)
        /\ api_version = "v2" =>
             /\ request.data.enc = "json"
             /\ request.data.doc["notify"] \in BOOLEAN
             /\ request.data.doc["notify"] = call.notify

C9_Witness ==
    /\ pc = "sent"
    /\ call.op = "send_message"
    /\ call.notify
    /\ api_version = "v1"
    /\ request.data.doc["notify"] = 1

\* the key and the version a request was built with
C10_KeySent(k) ==
    \/ "auth_token" \in DOMAIN request.params /\ request.params["auth_token"] = k
    \/ /\ "Authorization" \in DOMAIN request.headers
       /\ request.headers["Authorization"] = "Bearer " \o k
C10_VersionSent(v) ==
    \E f \in {"rooms", "users", "message"}, id \in {"0", "7"} :
        /\ v \in Supported
        /\ request.url = "https://api.hipchat.com/" \o v \o "/"
                           \o hipchat_functions(id)[v][f].request

\* C10: a key or version passed to the operation is the one the request is
\* built with, whatever the configuration holds; the configuration supplies
\* only the part that was not passed, and is not looked up when both are
\* passed.
C10_ExplicitWins ==
    /\ Requested =>
         /\ C10_KeySent(IF TruthyArg(call.api_key) THEN call.api_key ELSE config.api_key)
         /\ C10_VersionSent(IF TruthyArg(call.api_version) THEN call.api_version
                            ELSE config.api_version)
    /\ (pc # "idle" /\ TruthyArg(call.api_key) /\ TruthyArg(call.api_version))
         => consulted = 0

\* the key passed wins over a different configured one, and the version
\* comes from the configuration
C10_Witness ==
    /\ pc = "sent"
    /\ call.api_key = CallerKey
    /\ call.api_version = None
    /\ config.kind = "profile"
    /\ config.api_key = ConfigKey
    /\ config.api_version = "v1"
    /\ request.params["auth_token"] = CallerKey
    /\ C10_VersionSent("v1")

=============================================================================
